---- MODULE Spec2Model ----
(***************************************************************************)
(* Model of src/metadata/metadata.rs of rpmrepo_metadata: the Checksum,    *)
(* FileType, MetadataType and CompressionType conversions and the          *)
(* rpm::RPMPackage -> Package conversion.                                  *)
(*                                                                         *)
(* Byte strings (&[u8]) are sequences of byte values 0..255.  A Rust       *)
(* String / &str is modelled by its UTF-8 bytes, so a byte string becomes  *)
(* a string only through from_utf8, which validates it.                    *)
(*                                                                         *)
(* A call ends in one of three outcomes: Ok(v), Err(e) (a value returned   *)
(* to the caller) or a panic (the thread aborts; no value is returned).    *)
(* A panic carries the source line of the panicking expression.            *)
(***************************************************************************)
EXTENDS Integers, Sequences, FiniteSets, TLC

VARIABLES checksum, filetype, call, out

vars == <<checksum, filetype, call, out>>

(* Longest digest byte string drawn as an input. *)
MaxLen == 2

----------------------------------------------------------------------------
(* Outcomes *)

Ok(v) == [kind |-> "ok", val |-> v]

Err(e) == [kind |-> "err", err |-> e]

Panic(line) == [kind |-> "panic", line |-> line]

NoOutcome == [kind |-> "none"]

----------------------------------------------------------------------------
(* String literals of the source, as UTF-8 bytes *)

STR_sha == <<115, 104, 97>>

STR_sha1 == <<115, 104, 97, 49>>

STR_sha256 == <<115, 104, 97, 50, 53, 54>>

STR_sha384 == <<115, 104, 97, 51, 56, 52>>

STR_sha512 == <<115, 104, 97, 53, 49, 50>>

STR_gzip == <<103, 122, 105, 112>>

STR_bz2 == <<98, 122, 50>>

STR_xz == <<120, 122>>

STR_none == <<110, 111, 110, 101>>

STR_file == <<102, 105, 108, 101>>

STR_dir == <<100, 105, 114>>

STR_ghost == <<103, 104, 111, 115, 116>>

STR_db == <<95, 100, 98>>

STR_zck == <<95, 122, 99, 107>>

METADATA_PRIMARY == <<112, 114, 105, 109, 97, 114, 121>>

METADATA_FILELISTS == <<102, 105, 108, 101, 108, 105, 115, 116, 115>>

METADATA_OTHER == <<111, 116, 104, 101, 114>>

METADATA_PRIMARY_DB == METADATA_PRIMARY \o STR_db

METADATA_FILELISTS_DB == METADATA_FILELISTS \o STR_db

METADATA_OTHER_DB == METADATA_OTHER \o STR_db

METADATA_PRIMARY_ZCK == METADATA_PRIMARY \o STR_zck

METADATA_FILELISTS_ZCK == METADATA_FILELISTS \o STR_zck

METADATA_OTHER_ZCK == METADATA_OTHER \o STR_zck

----------------------------------------------------------------------------
(* std::str::from_utf8: the well-formed UTF-8 byte sequences *)

IsCont(b) == b \in 128..191

SecondOk(h, b) ==
    IF h = 224 THEN b \in 160..191
    ELSE IF h = 237 THEN b \in 128..159
    ELSE IF h = 240 THEN b \in 144..191
    ELSE IF h = 244 THEN b \in 128..143
    ELSE IsCont(b)

RECURSIVE Utf8Valid(_)
Utf8Valid(b) ==
    IF b = <<>> THEN TRUE
    ELSE LET h == Head(b)
             n == Len(b)
         IN  IF h < 128 THEN Utf8Valid(Tail(b))
             ELSE IF h \in 194..223
                  THEN n >= 2 /\ IsCont(b[2]) /\ Utf8Valid(SubSeq(b, 3, n))
             ELSE IF h \in 224..239
                  THEN n >= 3 /\ SecondOk(h, b[2]) /\ IsCont(b[3])
                       /\ Utf8Valid(SubSeq(b, 4, n))
             ELSE IF h \in 240..244
                  THEN n >= 4 /\ SecondOk(h, b[2]) /\ IsCont(b[3])
                       /\ IsCont(b[4]) /\ Utf8Valid(SubSeq(b, 5, n))
             ELSE FALSE

(* line 206: |value| std::str::from_utf8(value).unwrap().to_owned() *)
bytes_to_str(value) ==
    IF Utf8Valid(value) THEN Ok(value) ELSE Panic(206)

----------------------------------------------------------------------------
(* Checksum *)

Sha1(c) == [tag |-> "Sha1", digest |-> c]

Sha256(c) == [tag |-> "Sha256", digest |-> c]

Sha384(c) == [tag |-> "Sha384", digest |-> c]

Sha512(c) == [tag |-> "Sha512", digest |-> c]

Unknown == [tag |-> "Unknown"]

Checksum_default == Unknown

UnsupportedChecksumTypeError(s) ==
    [type |-> "UnsupportedChecksumTypeError", payload |-> s]

Utf8Error == [type |-> "Utf8Error"]

(* Apply a variant constructor to the outcome of bytes_to_str; a panic in *)
(* the argument propagates.                                               *)
Build(s, variant) ==
    IF s.kind = "ok" THEN Ok([tag |-> variant, digest |-> s.val]) ELSE s

(* Variant: the "sha" alias is not accepted. *)
Checksum_try_create_NoShaAlias(checksum_type, checksum_bytes) ==
    IF checksum_type = STR_sha1
    THEN Build(bytes_to_str(checksum_bytes), "Sha1")
    ELSE IF checksum_type = STR_sha256
    THEN Build(bytes_to_str(checksum_bytes), "Sha256")
    ELSE IF checksum_type = STR_sha384
    THEN Build(bytes_to_str(checksum_bytes), "Sha384")
    ELSE IF checksum_type = STR_sha512
    THEN Build(bytes_to_str(checksum_bytes), "Sha512")
    ELSE LET s == bytes_to_str(checksum_type)
         IN  IF s.kind = "ok"
             THEN Err(UnsupportedChecksumTypeError(s.val))
             ELSE s

(* Variant: the error carries the digest instead of the token. *)
Checksum_try_create_PayloadDigest(checksum_type, checksum_bytes) ==
    IF checksum_type \in {STR_sha, STR_sha1}
    THEN Build(bytes_to_str(checksum_bytes), "Sha1")
    ELSE IF checksum_type = STR_sha256
    THEN Build(bytes_to_str(checksum_bytes), "Sha256")
    ELSE IF checksum_type = STR_sha384
    THEN Build(bytes_to_str(checksum_bytes), "Sha384")
    ELSE IF checksum_type = STR_sha512
    THEN Build(bytes_to_str(checksum_bytes), "Sha512")
    ELSE LET s == bytes_to_str(checksum_bytes)
         IN  IF s.kind = "ok"
             THEN Err(UnsupportedChecksumTypeError(s.val))
             ELSE s

(* Variant: an unrecognized token yields Checksum::Unknown. *)
Checksum_try_create_UnknownFallback(checksum_type, checksum_bytes) ==
    IF checksum_type \in {STR_sha, STR_sha1}
    THEN Build(bytes_to_str(checksum_bytes), "Sha1")
    ELSE IF checksum_type = STR_sha256
    THEN Build(bytes_to_str(checksum_bytes), "Sha256")
    ELSE IF checksum_type = STR_sha384
    THEN Build(bytes_to_str(checksum_bytes), "Sha384")
    ELSE IF checksum_type = STR_sha512
    THEN Build(bytes_to_str(checksum_bytes), "Sha512")
    ELSE Ok(Unknown)

Checksum_try_create(checksum_type, checksum_bytes) ==
    IF checksum_type = STR_sha
    THEN Build(bytes_to_str(checksum_bytes), "Sha1")
    ELSE IF checksum_type = STR_sha1
    THEN Build(bytes_to_str(checksum_bytes), "Sha1")
    ELSE IF checksum_type = STR_sha256
    THEN Build(bytes_to_str(checksum_bytes), "Sha256")
    ELSE IF checksum_type = STR_sha384
    THEN Build(bytes_to_str(checksum_bytes), "Sha384")
    ELSE IF checksum_type = STR_sha512
    THEN Build(bytes_to_str(checksum_bytes), "Sha512")
    ELSE LET s == bytes_to_str(checksum_type)
         IN  IF s.kind = "ok"
             THEN Err(UnsupportedChecksumTypeError(s.val))
             ELSE s

(* Variant: Unknown is reported as an error value instead of a panic. *)
Checksum_to_values_ErrOnUnknown(self) ==
    IF self.tag = "Sha1" THEN Ok(<<STR_sha1, self.digest>>)
    ELSE IF self.tag = "Sha256" THEN Ok(<<STR_sha256, self.digest>>)
    ELSE IF self.tag = "Sha384" THEN Ok(<<STR_sha384, self.digest>>)
    ELSE IF self.tag = "Sha512" THEN Ok(<<STR_sha512, self.digest>>)
    ELSE Err(UnsupportedChecksumTypeError(<<>>))

(* Variant: Sha384 is serialized under the sha256 token. *)
Checksum_to_values_Sha384As256(self) ==
    IF self.tag = "Sha1" THEN Ok(<<STR_sha1, self.digest>>)
    ELSE IF self.tag = "Sha256" THEN Ok(<<STR_sha256, self.digest>>)
    ELSE IF self.tag = "Sha384" THEN Ok(<<STR_sha256, self.digest>>)
    ELSE IF self.tag = "Sha512" THEN Ok(<<STR_sha512, self.digest>>)
    ELSE Panic(229)

Checksum_to_values(self) ==
    IF self.tag = "Sha1" THEN Ok(<<STR_sha1, self.digest>>)
    ELSE IF self.tag = "Sha256" THEN Ok(<<STR_sha256, self.digest>>)
    ELSE IF self.tag = "Sha384" THEN Ok(<<STR_sha384, self.digest>>)
    ELSE IF self.tag = "Sha512" THEN Ok(<<STR_sha512, self.digest>>)
    ELSE Panic(229)

----------------------------------------------------------------------------
(* FileType *)

(* Variant: an unrecognized token is reported as an error value. *)
FileType_try_create_ErrOnUnknown(val) ==
    IF val = STR_dir THEN Ok("Dir")
    ELSE IF val = STR_ghost THEN Ok("Ghost")
    ELSE IF val = STR_file THEN Ok("File")
    ELSE Err(UnsupportedChecksumTypeError(val))

FileType_try_create(val) ==
    IF val = STR_dir THEN Ok("Dir")
    ELSE IF val = STR_ghost THEN Ok("Ghost")
    ELSE IF val = STR_file THEN Ok("File")
    ELSE Panic(306)

FileType_to_values(self) ==
    IF self = "File" THEN STR_file
    ELSE IF self = "Dir" THEN STR_dir
    ELSE STR_ghost

FileType_default == "File"

----------------------------------------------------------------------------
(* MetadataType *)

(* Variant: the _db and _zck kinds of primary are exchanged. *)
MetadataType_from_DbZckSwapped(name) ==
    IF name = METADATA_PRIMARY THEN "Primary"
    ELSE IF name = METADATA_FILELISTS THEN "Filelists"
    ELSE IF name = METADATA_OTHER THEN "Other"
    ELSE IF name = METADATA_PRIMARY_DB THEN "PrimaryZck"
    ELSE IF name = METADATA_FILELISTS_DB THEN "FilelistsDb"
    ELSE IF name = METADATA_OTHER_DB THEN "OtherDb"
    ELSE IF name = METADATA_PRIMARY_ZCK THEN "PrimaryDb"
    ELSE IF name = METADATA_FILELISTS_ZCK THEN "FilelistsZck"
    ELSE IF name = METADATA_OTHER_ZCK THEN "OtherZck"
    ELSE "Unknown"

MetadataType_from(name) ==
    IF name = METADATA_PRIMARY THEN "Primary"
    ELSE IF name = METADATA_FILELISTS THEN "Filelists"
    ELSE IF name = METADATA_OTHER THEN "Other"
    ELSE IF name = METADATA_PRIMARY_DB THEN "PrimaryDb"
    ELSE IF name = METADATA_FILELISTS_DB THEN "FilelistsDb"
    ELSE IF name = METADATA_OTHER_DB THEN "OtherDb"
    ELSE IF name = METADATA_PRIMARY_ZCK THEN "PrimaryZck"
    ELSE IF name = METADATA_FILELISTS_ZCK THEN "FilelistsZck"
    ELSE IF name = METADATA_OTHER_ZCK THEN "OtherZck"
    ELSE "Unknown"

----------------------------------------------------------------------------
(* CompressionType *)

CompressionType_try_into(self) ==
    IF self = STR_gzip THEN Ok("Gzip")
    ELSE IF self = STR_bz2 THEN Ok("Bz2")
    ELSE IF self = STR_xz THEN Ok("Xz")
    ELSE IF self = STR_none THEN Ok("None")
    ELSE Err(UnsupportedChecksumTypeError(self))

----------------------------------------------------------------------------
(* Default-constructed records (#[derive(Default)]) *)

EVR_new(epoch, version, release) ==
    [epoch |-> epoch, version |-> version, release |-> release]

EVR_default == EVR_new(<<>>, <<>>, <<>>)

Time_default == [file |-> 0, build |-> 0]

Size_default == [package |-> 0, installed |-> 0, archive |-> 0]

HeaderRange_default == [start |-> 0, end |-> 0]

Package_default ==
    [name |-> <<>>, arch |-> <<>>, evr |-> EVR_default,
     checksum |-> Checksum_default, location_href |-> <<>>,
     summary |-> <<>>, description |-> <<>>, packager |-> <<>>,
     url |-> <<>>, time |-> Time_default, size |-> Size_default,
     rpm_license |-> <<>>, rpm_vendor |-> <<>>, rpm_group |-> <<>>,
     rpm_buildhost |-> <<>>, rpm_sourcerpm |-> <<>>,
     rpm_header_range |-> HeaderRange_default,
     rpm_requires |-> <<>>, rpm_provides |-> <<>>, rpm_conflicts |-> <<>>,
     rpm_obsoletes |-> <<>>, rpm_suggests |-> <<>>, rpm_enhances |-> <<>>,
     rpm_recommends |-> <<>>, rpm_supplements |-> <<>>,
     rpm_changelogs |-> <<>>, rpm_files |-> <<>>]

None == [some |-> FALSE]

RepoMdRecord_default ==
    [mdtype |-> <<>>, location_href |-> <<>>, timestamp |-> 0,
     size |-> None, checksum |-> Checksum_default,
     open_size |-> None, open_checksum |-> None,
     header_size |-> None, header_checksum |-> None,
     database_version |-> None]

PackageFile_default == [filetype |-> FileType_default, path |-> <<>>]

----------------------------------------------------------------------------
(* impl TryInto<Package> for rpm::RPMPackage *)

(* The outcome of a header accessor that fails: an rpm::RPMError. *)
RPMError(tag) == [type |-> "RPMError", tag |-> tag]

(* u32::to_string: decimal digits, no sign, no leading zeros *)
RECURSIVE u32_to_string(_)
u32_to_string(n) ==
    IF n < 10 THEN <<48 + n>>
    ELSE u32_to_string(n \div 10) \o <<48 + (n % 10)>>

(* The field initialisers of the struct expression, in source order, with *)
(* the line of each.                                                      *)
PackageFields ==
    << [field |-> "name", line |-> 477],
       [field |-> "arch", line |-> 478],
       [field |-> "evr", line |-> 479],
       [field |-> "checksum", line |-> 485],
       [field |-> "location_href", line |-> 486],
       [field |-> "summary", line |-> 487],
       [field |-> "description", line |-> 488],
       [field |-> "packager", line |-> 489],
       [field |-> "url", line |-> 490],
       [field |-> "time", line |-> 491],
       [field |-> "size", line |-> 492],
       [field |-> "rpm_license", line |-> 494],
       [field |-> "rpm_vendor", line |-> 495],
       [field |-> "rpm_group", line |-> 496],
       [field |-> "rpm_buildhost", line |-> 497],
       [field |-> "rpm_sourcerpm", line |-> 498],
       [field |-> "rpm_header_range", line |-> 499],
       [field |-> "rpm_requires", line |-> 501],
       [field |-> "rpm_provides", line |-> 502],
       [field |-> "rpm_conflicts", line |-> 503],
       [field |-> "rpm_obsoletes", line |-> 504],
       [field |-> "rpm_suggests", line |-> 505],
       [field |-> "rpm_enhances", line |-> 506],
       [field |-> "rpm_recommends", line |-> 507],
       [field |-> "rpm_supplements", line |-> 508],
       [field |-> "rpm_changelogs", line |-> 510],
       [field |-> "rpm_files", line |-> 511] >>

(* self.metadata.header.get_X()? : the accessor's value, or its error     *)
(* returned from try_into.                                                *)
evr_init(header) ==
    IF header.epoch.kind = "err" THEN header.epoch
    ELSE IF header.version.kind = "err" THEN header.version
    ELSE IF header.release.kind = "err" THEN header.release
    ELSE Ok(EVR_new(u32_to_string(header.epoch.val),
                    header.version.val, header.release.val))

(* Variant: the checksum initialiser yields a value instead of todo!(). *)
FieldInit_ChecksumFilled(header, f) ==
    IF f.field = "name" THEN header.name
    ELSE IF f.field = "arch" THEN header.arch
    ELSE IF f.field = "evr" THEN evr_init(header)
    ELSE IF f.field = "checksum" THEN Ok(Checksum_default)
    ELSE Panic(f.line)

(* The outcome of evaluating one field initialiser. *)
FieldInit(header, f) ==
    IF f.field = "name" THEN header.name
    ELSE IF f.field = "arch" THEN header.arch
    ELSE IF f.field = "evr" THEN evr_init(header)
    ELSE Panic(f.line)

(* Evaluate the initialisers from the i-th on; the first that does not    *)
(* yield a value ends the conversion.                                     *)
RECURSIVE EvalFields(_, _, _)
EvalFields(header, i, pkg) ==
    IF i > Len(PackageFields) THEN Ok(pkg)
    ELSE LET f == PackageFields[i]
             r == FieldInit(header, f)
         IN  IF r.kind = "ok"
             THEN EvalFields(header, i + 1, pkg @@ (f.field :> r.val))
             ELSE r

RPMPackage_try_into(header) == EvalFields(header, 1, <<>>)

----------------------------------------------------------------------------
(* Inputs *)

(* Bytes the digest inputs are made of: 'a' and 0xFF, which occurs in no  *)
(* well-formed UTF-8 string.                                              *)
DigestBytes == {97, 255}

(* A two-byte character (U+00E9) and its first byte alone.                *)
MultiByteDigests == {<<195, 169>>, <<195>>}

Digests ==
    UNION {[1..k -> DigestBytes] : k \in 0..MaxLen} \cup MultiByteDigests

STR_md5 == <<109, 100, 53>>

STR_SHA1_upper == <<83, 72, 65, 49>>

STR_sha2 == <<115, 104, 97, 50>>

STR_zstd == <<122, 115, 116, 100>>

STR_updateinfo == <<117, 112, 100, 97, 116, 101, 105, 110, 102, 111>>

ChecksumTokens == {STR_sha, STR_sha1, STR_sha256, STR_sha384, STR_sha512}

FileTypeTokens == {STR_file, STR_dir, STR_ghost}

CompressionTokens == {STR_gzip, STR_bz2, STR_xz, STR_none}

MetadataTokens ==
    {METADATA_PRIMARY, METADATA_FILELISTS, METADATA_OTHER,
     METADATA_PRIMARY_DB, METADATA_FILELISTS_DB, METADATA_OTHER_DB,
     METADATA_PRIMARY_ZCK, METADATA_FILELISTS_ZCK, METADATA_OTHER_ZCK}

(* Byte strings that are not UTF-8. *)
BadBytes == {<<255>>, STR_sha \o <<255>>}

(* Inputs of Checksum::try_create's checksum_type: the accepted tokens,   *)
(* well-formed tokens it does not accept (the empty string, a token in    *)
(* the wrong case, a proper prefix of one, a non-ASCII one, another       *)
(* conversion's token) and byte strings that are not UTF-8.               *)
ChecksumTypeInputs ==
    ChecksumTokens
        \cup {<<>>, STR_md5, STR_SHA1_upper, STR_sha2, <<195, 169>>, STR_none}
        \cup BadBytes

FileTypeInputs ==
    FileTypeTokens \cup {<<>>, STR_md5, STR_none, <<70, 105, 108, 101>>}
        \cup BadBytes

(* &str inputs: always well-formed UTF-8. *)
MetadataTypeInputs ==
    MetadataTokens
        \cup {<<>>, STR_updateinfo, STR_none, METADATA_PRIMARY \o <<95>>,
              <<80>> \o Tail(METADATA_PRIMARY)}

CompressionInputs ==
    CompressionTokens
        \cup {<<>>, STR_zstd, STR_sha1, <<71, 90, 73, 80>>, <<195, 169>>}

Headers ==
    [name : {Ok(<<97>>), Err(RPMError("name"))},
     arch : {Ok(<<120>>), Err(RPMError("arch"))},
     epoch : {Ok(0), Ok(12), Err(RPMError("epoch"))},
     version : {Ok(<<49>>), Err(RPMError("version"))},
     release : {Ok(<<50>>), Err(RPMError("release"))}]

----------------------------------------------------------------------------
(* State machine: a client holds a record's checksum and a file entry's   *)
(* filetype and makes one call per step.  call is the call made last and  *)
(* out its outcome.  A panic ends the run.                                *)

Init ==
    /\ checksum = Checksum_default
    /\ filetype = FileType_default
    /\ call = [fn |-> "new"]
    /\ out = NoOutcome

Running == out.kind # "panic"

DefaultChecksum ==
    /\ Running
    /\ checksum' = Checksum_default
    /\ call' = [fn |-> "Checksum::default"]
    /\ out' = Ok(Checksum_default)
    /\ UNCHANGED filetype

DefaultPackage ==
    /\ Running
    /\ checksum' = Package_default.checksum
    /\ call' = [fn |-> "Package::default"]
    /\ out' = Ok(Package_default)
    /\ UNCHANGED filetype

DefaultRepoMdRecord ==
    /\ Running
    /\ checksum' = RepoMdRecord_default.checksum
    /\ call' = [fn |-> "RepoMdRecord::default"]
    /\ out' = Ok(RepoMdRecord_default)
    /\ UNCHANGED filetype

DefaultPackageFile ==
    /\ Running
    /\ filetype' = PackageFile_default.filetype
    /\ call' = [fn |-> "PackageFile::default"]
    /\ out' = Ok(PackageFile_default)
    /\ UNCHANGED checksum

TryCreate ==
    /\ Running
    /\ \E t \in ChecksumTypeInputs, d \in Digests :
         LET r == Checksum_try_create(t, d)
         IN  /\ call' = [fn |-> "Checksum::try_create",
                         checksum_type |-> t, checksum |-> d]
             /\ out' = r
             /\ checksum' = IF r.kind = "ok" THEN r.val ELSE checksum
    /\ UNCHANGED filetype

ToValues ==
    /\ Running
    /\ call' = [fn |-> "Checksum::to_values", self |-> checksum]
    /\ out' = Checksum_to_values(checksum)
    /\ UNCHANGED <<checksum, filetype>>

FileTypeTryCreate ==
    /\ Running
    /\ \E v \in FileTypeInputs :
         LET r == FileType_try_create(v)
         IN  /\ call' = [fn |-> "FileType::try_create", val |-> v]
             /\ out' = r
             /\ filetype' = IF r.kind = "ok" THEN r.val ELSE filetype
    /\ UNCHANGED checksum

FileTypeToValues ==
    /\ Running
    /\ call' = [fn |-> "FileType::to_values", self |-> filetype]
    /\ out' = Ok(FileType_to_values(filetype))
    /\ UNCHANGED <<checksum, filetype>>

MetadataTypeFrom ==
    /\ Running
    /\ \E n \in MetadataTypeInputs :
         /\ call' = [fn |-> "MetadataType::from", name |-> n]
         /\ out' = Ok(MetadataType_from(n))
    /\ UNCHANGED <<checksum, filetype>>

CompressionTryInto ==
    /\ Running
    /\ \E s \in CompressionInputs :
         /\ call' = [fn |-> "CompressionType::try_into", self |-> s]
         /\ out' = CompressionType_try_into(s)
    /\ UNCHANGED <<checksum, filetype>>

RpmTryInto ==
    /\ Running
    /\ \E h \in Headers :
         /\ call' = [fn |-> "RPMPackage::try_into", header |-> h]
         /\ out' = RPMPackage_try_into(h)
    /\ UNCHANGED <<checksum, filetype>>

Next ==
    \/ DefaultChecksum
    \/ DefaultPackage
    \/ DefaultRepoMdRecord
    \/ DefaultPackageFile
    \/ TryCreate
    \/ ToValues
    \/ FileTypeTryCreate
    \/ FileTypeToValues
    \/ MetadataTypeFrom
    \/ CompressionTryInto
    \/ RpmTryInto

Spec == Init /\ [][Next]_vars

TypeOK ==
    /\ checksum.tag \in {"Sha1", "Sha256", "Sha384", "Sha512", "Unknown"}
    /\ filetype \in {"File", "Dir", "Ghost"}
    /\ out.kind \in {"none", "ok", "err", "panic"}

----------------------------------------------------------------------------
(* Properties *)

IsTryCreate == call.fn = "Checksum::try_create"

IsToValues == call.fn = "Checksum::to_values"

CanonicalTokens == {STR_sha1, STR_sha256, STR_sha384, STR_sha512}

(* C1: for every digest string d, try_create("sha1", d) and               *)
(* try_create("sha", d) both succeed with Checksum::Sha1(d), and          *)
(* to_values on that value returns ("sha1", d).                           *)
C1_ShaAlias ==
    /\ (IsTryCreate /\ call.checksum_type \in {STR_sha, STR_sha1}
            /\ Utf8Valid(call.checksum))
       => /\ out = Ok(Sha1(call.checksum))
          /\ checksum = Sha1(call.checksum)
          /\ Checksum_to_values(out.val) = Ok(<<STR_sha1, call.checksum>>)
    /\ (IsToValues /\ call.self.tag = "Sha1")
       => out = Ok(<<STR_sha1, call.self.digest>>)

C1_Witness ==
    /\ IsTryCreate
    /\ call.checksum_type = STR_sha
    /\ call.checksum = <<195, 169>>
    /\ out.kind = "ok"

(* C2: for every token t (a string) other than sha, sha1, sha256, sha384, *)
(* sha512 and every digest, well-formed or not, try_create returns the    *)
(* unsupported-checksum-algorithm error whose payload is exactly t, and   *)
(* no Checksum value.                                                     *)
C2_UnsupportedToken ==
    (IsTryCreate /\ call.checksum_type \notin ChecksumTokens
         /\ Utf8Valid(call.checksum_type))
    => out = Err(UnsupportedChecksumTypeError(call.checksum_type))

C2_Witness ==
    /\ IsTryCreate
    /\ call.checksum_type = STR_md5
    /\ call.checksum = <<255>>
    /\ out.kind = "err"

(* C3: to_values on Checksum::Unknown panics (no pair, no error value);   *)
(* on every other variant it returns Ok; it never returns Err.            *)
C3_ToValuesUnknownPanics ==
    IsToValues
    => /\ out.kind # "err"
       /\ (call.self.tag = "Unknown" => out = Panic(229))
       /\ (call.self.tag # "Unknown" => out.kind = "ok")

C3_Witness ==
    /\ IsToValues
    /\ call.self.tag = "Unknown"
    /\ out.kind = "panic"

(* C4: try_create returns an error or one of Sha1/Sha256/Sha384/Sha512,   *)
(* never Unknown; Checksum::default() and the checksum of a default       *)
(* Package or RepoMdRecord are Unknown.                                   *)
C4_UnknownOnlyByDefault ==
    /\ (IsTryCreate /\ out.kind = "ok")
       => /\ out.val.tag \in {"Sha1", "Sha256", "Sha384", "Sha512"}
          /\ checksum.tag # "Unknown"
    /\ call.fn = "Checksum::default" => out.val.tag = "Unknown"
    /\ call.fn \in {"Package::default", "RepoMdRecord::default"}
       => out.val.checksum.tag = "Unknown"
    /\ call.fn \in {"Checksum::default", "Package::default",
                    "RepoMdRecord::default"}
       => checksum.tag = "Unknown"

C4_Witness ==
    /\ IsTryCreate
    /\ call.checksum_type = STR_sha384
    /\ out.kind = "ok"
    /\ checksum = out.val

(* C5: MetadataType::from maps each of the nine tokens to its own kind    *)
(* and every other token to Unknown; it never fails.                      *)
MetadataKinds ==
    {<<METADATA_PRIMARY, "Primary">>,
     <<METADATA_FILELISTS, "Filelists">>,
     <<METADATA_OTHER, "Other">>,
     <<METADATA_PRIMARY_DB, "PrimaryDb">>,
     <<METADATA_FILELISTS_DB, "FilelistsDb">>,
     <<METADATA_OTHER_DB, "OtherDb">>,
     <<METADATA_PRIMARY_ZCK, "PrimaryZck">>,
     <<METADATA_FILELISTS_ZCK, "FilelistsZck">>,
     <<METADATA_OTHER_ZCK, "OtherZck">>}

C5_MetadataTypeTotal ==
    call.fn = "MetadataType::from"
    => /\ out.kind = "ok"
       /\ \A p \in MetadataKinds : call.name = p[1] => out.val = p[2]
       /\ (call.name \notin {p[1] : p \in MetadataKinds}
           => out.val = "Unknown")

C5_Witness ==
    /\ call.fn = "MetadataType::from"
    /\ call.name = <<112, 114, 105, 109, 97, 114, 121, 95, 122, 99, 107>>
    /\ out = Ok("PrimaryZck")

(* C6: a compression token converts to the matching codec for gzip, bz2,  *)
(* xz and none, and every other token fails with the                      *)
(* unsupported-compression error kind.                                    *)
CompressionKinds ==
    {<<STR_gzip, "Gzip">>, <<STR_bz2, "Bz2">>, <<STR_xz, "Xz">>,
     <<STR_none, "None">>}

C6_UnsupportedCompression ==
    call.fn = "CompressionType::try_into"
    => /\ \A p \in CompressionKinds : call.self = p[1] => out = Ok(p[2])
       /\ (call.self \notin CompressionTokens
           => /\ out.kind = "err"
              /\ out.err.type = "UnsupportedCompressionTypeError")

(* C7: when try_create is given digest bytes, or an unrecognized token,   *)
(* that are not valid UTF-8, the call ends in a returned error, never in  *)
(* an abort or an accepted value, and the error is the UTF-8 decoding     *)
(* error whenever the malformed bytes are the ones try_create decodes     *)
(* (the digest under an accepted token, the token otherwise).             *)
C7_Utf8ErrorReturned ==
    (IsTryCreate
        /\ \/ ~Utf8Valid(call.checksum)
           \/ (call.checksum_type \notin ChecksumTokens
                  /\ ~Utf8Valid(call.checksum_type)))
    => /\ out.kind = "err"
       /\ (\/ call.checksum_type \in ChecksumTokens
           \/ ~Utf8Valid(call.checksum_type))
          => out = Err(Utf8Error)

(* C8: the conversion of an rpm::RPMPackage never returns Ok(Package): it *)
(* returns the error of the first failing read among name, arch, epoch,   *)
(* version, release, or, when all five succeed, panics at the checksum    *)
(* initialiser.                                                           *)
C8_RpmConversionStubbed ==
    call.fn = "RPMPackage::try_into"
    => LET h == call.header
       IN  /\ out.kind # "ok"
           /\ out = IF h.name.kind = "err" THEN h.name
                    ELSE IF h.arch.kind = "err" THEN h.arch
                    ELSE IF h.epoch.kind = "err" THEN h.epoch
                    ELSE IF h.version.kind = "err" THEN h.version
                    ELSE IF h.release.kind = "err" THEN h.release
                    ELSE Panic(485)

C8_Witness ==
    /\ call.fn = "RPMPackage::try_into"
    /\ \A f \in {"name", "arch", "epoch", "version", "release"} :
         call.header[f].kind = "ok"
    /\ out.kind = "panic"

(* C9: for every Checksum c other than Unknown, try_create on the pair    *)
(* returned by c.to_values() returns Ok(c); for t in sha1, sha256,        *)
(* sha384, sha512 and a digest string d, to_values(try_create(t, d)) is   *)
(* (t, d); "sha" is the only accepted token that is not reproduced.       *)
C9_RoundTrip ==
    /\ (IsToValues /\ call.self.tag # "Unknown")
       => /\ out.kind = "ok"
          /\ Checksum_try_create(out.val[1], out.val[2]) = Ok(call.self)
    /\ (IsTryCreate /\ call.checksum_type \in CanonicalTokens
            /\ Utf8Valid(call.checksum))
       => /\ out.kind = "ok"
          /\ Checksum_to_values(out.val)
                = Ok(<<call.checksum_type, call.checksum>>)
    /\ (IsTryCreate /\ out.kind = "ok")
       => (Checksum_to_values(out.val)
                # Ok(<<call.checksum_type, call.checksum>>)
           <=> call.checksum_type = STR_sha)

C9_Witness ==
    /\ IsToValues
    /\ call.self = Sha384(<<195, 169>>)
    /\ out.kind = "ok"

(* C10: FileType::try_create and to_values are mutually inverse on File,  *)
(* Dir, Ghost with tokens file, dir, ghost; the default is File;          *)
(* try_create never returns Err: any other token panics.                  *)
FileKinds ==
    {<<STR_file, "File">>, <<STR_dir, "Dir">>, <<STR_ghost, "Ghost">>}

C10_FileType ==
    /\ call.fn = "FileType::to_values"
       => /\ <<out.val, call.self>> \in FileKinds
          /\ FileType_try_create(out.val) = Ok(call.self)
    /\ call.fn = "FileType::try_create"
       => /\ out.kind # "err"
          /\ \A p \in FileKinds :
               call.val = p[1]
               => out = Ok(p[2]) /\ FileType_to_values(out.val) = call.val
          /\ (call.val \notin {p[1] : p \in FileKinds} => out = Panic(306))
    /\ call.fn = "PackageFile::default"
       => filetype = "File" /\ out.val.filetype = "File"

C10_Witness ==
    /\ call.fn = "FileType::try_create"
    /\ call.val = <<70, 105, 108, 101>>
    /\ out.kind = "panic"

====
